---- MODULE Spec2Model ----
(***************************************************************************)
(* ExecuteFarsitePiece (src/pieces/ExecuteFarsitePiece/piece.py): staging  *)
(* of inputs under /work/in, the synchronous run of run_farsite.sh, the    *)
(* fallback log, the choice of the reported log and the outputs zip.       *)
(*                                                                         *)
(* Paths and file names are sequences of one-character strings, so that    *)
(* os.path.join, os.path.basename, Path.suffix, Path.with_suffix and       *)
(* glob.glob are computed on characters as the library computes them.      *)
(* The filesystem is a pair (files, dirs): files maps the path of every    *)
(* regular file to its data and its modification time, dirs is the set of  *)
(* directories.  Time is the number of the piece_function call under way.  *)
(***************************************************************************)
EXTENDS Naturals, Sequences, FiniteSets

VARIABLES files, dirs, pc, run, input, cmd, proc, runner_log_path, ret, err,
          before, call

vars == <<files, dirs, pc, run, input, cmd, proc, runner_log_path, ret, err,
          before, call>>

(***************************************************************************)
(* Bounds of the model.                                                    *)
(***************************************************************************)
\* number of piece_function calls made one after another in the same /work
MaxRuns == 2
\* the wrapper's exit status is drawn from 0..MaxReturnCode
MaxReturnCode == 1
\* InputModel.outputs_type: 0=both, 1=ASCII grid, 2=FlamMap binary grid
MaxOutputsType == 2

(***************************************************************************)
(* Literals of the source.                                                 *)
(***************************************************************************)
work_root == <<"/","w","o","r","k">>
in_name == <<"i","n">>
out_name == <<"o","u","t">>
wrapper == <<"/","u","s","r","/","l","o","c","a","l","/","b","i","n","/","r","u","n","_","f","a","r","s","i","t","e",".","s","h">>
ShpExt == <<".","s","h","p">>
StdoutLogSuffix == <<"_","s","t","d","o","u","t",".","l","o","g">>
RunnerLogSuffix == <<"_","r","u","n","n","e","r",".","l","o","g">>
OutputsSuffix == <<"_","o","u","t","p","u","t","s">>
ZipExt == <<".","z","i","p">>
\* the barrier sentinel "0", and Python's None (no character sequence)
Sentinel == <<"0">>
None == <<"<None>">>
\* default of InputModel.output_basename
FarsiteRun == <<"f","a","r","s","i","t","e","_","r","u","n">>

(***************************************************************************)
(* The files a caller may supply, in one source directory /d.              *)
(***************************************************************************)
SrcDir == <<"/","d">>
LcpSrc == <<"/","d","/","a",".","l","c","p">>
InputsSrc == <<"/","d","/","r",".","i","n","p","u","t">>
IgnShp == <<"/","d","/","i",".","s","h","p">>
IgnDbf == <<"/","d","/","i",".","d","b","f">>
IgnXml == <<"/","d","/","i",".","s","h","p",".","x","m","l">>
IgnLike == <<"/","d","/","i","x",".","d","b","f">>
BarShp == <<"/","d","/","j",".","S","H","P">>
BarPrj == <<"/","d","/","j",".","p","r","j">>
TxtSrc == <<"/","d","/","n",".","t","x","t">>
NestedDst == <<"/","t","/","i","n">>
Run1 == <<"r","u","n","1">>

(***************************************************************************)
(* os.path and pathlib, on character sequences.                            *)
(***************************************************************************)
\* str.rfind, 1-based: the last position of c in s, 0 when c is not in s
RFind(s, c) ==
  LET hits == {k \in 1..Len(s) : s[k] = c}
  IN IF hits = {} THEN 0 ELSE CHOOSE k \in hits : \A j \in hits : j <= k

StartsWith(s, prefix) ==
  /\ Len(prefix) <= Len(s)
  /\ SubSeq(s, 1, Len(prefix)) = prefix

basename(p) == SubSeq(p, RFind(p, "/") + 1, Len(p))

\* os.path.dirname: the head before the last "/", "/" itself for a root entry
dirname(p) ==
  LET i == RFind(p, "/")
  IN IF i = 0 THEN <<>> ELSE IF i = 1 THEN <<"/">> ELSE SubSeq(p, 1, i - 1)

join(a, b) ==
  IF b # <<>> /\ b[1] = "/" THEN b
  ELSE IF a = <<>> \/ a[Len(a)] = "/" THEN a \o b
  ELSE a \o <<"/">> \o b

\* PurePath.suffix: the name from its last dot on, unless that dot is the
\* first or the last character of the name
suffix(p) ==
  LET name == basename(p)
      i == RFind(name, ".")
  IN IF 1 < i /\ i < Len(name) THEN SubSeq(name, i, Len(name)) ELSE <<>>

\* PurePath.with_suffix("")
with_suffix_empty(p) == SubSeq(p, 1, Len(p) - Len(suffix(p)))

LowerChar(c) ==
  CASE c = "S" -> "s"
    [] c = "H" -> "h"
    [] c = "P" -> "p"
    [] OTHER -> c

lower(s) == [k \in 1..Len(s) |-> LowerChar(s[k])]

(***************************************************************************)
(* The filesystem operations of the source.                                *)
(***************************************************************************)
\* every directory os.makedirs(p) has to create: p and its ancestors
Ancestors(p) ==
  {SubSeq(p, 1, k) : k \in {j \in 1..Len(p) : j = Len(p) \/ p[j + 1] = "/"}}

ensure_dir(fs, p) == [fs EXCEPT !.dirs = @ \cup Ancestors(p)]

\* shutil.copy2(src, dst): data and modification time travel with the file
copy2(fs, src, dst) ==
  IF src \notin DOMAIN fs.files \/ dirname(dst) \notin fs.dirs
    THEN [err |-> "FileNotFoundError", fs |-> fs]
  ELSE IF src = dst
    THEN [err |-> "SameFileError", fs |-> fs]
  ELSE [err |-> "none",
        fs |-> [fs EXCEPT !.files =
                  [p \in DOMAIN fs.files \cup {dst} |->
                     IF p = dst THEN fs.files[src] ELSE fs.files[p]]]]

copy_file(fs, src, dst_dir) ==
  LET fs1 == ensure_dir(fs, dst_dir)
      dst == join(dst_dir, basename(src))
      r == copy2(fs1, src, dst)
  IN [err |-> r.err, fs |-> r.fs, ret |-> dst]

\* the extension test of _copy_shapefile_set
is_shp(shp_path) == lower(suffix(shp_path)) = ShpExt

\* glob_stem with the dot of the pattern forgotten: stem*
glob_prefix(fs, stem) ==
  {p \in DOMAIN fs.files :
     /\ dirname(p) = dirname(stem)
     /\ StartsWith(basename(p), basename(stem))}

\* glob_stem looking for companions only: the .shp itself left out
glob_companions(fs, stem) ==
  {p \in DOMAIN fs.files :
     /\ dirname(p) = dirname(stem)
     /\ StartsWith(basename(p), basename(stem) \o <<".">>)
     /\ lower(suffix(p)) # ShpExt}

\* glob.glob(str(stem) + ".*"): the entries of stem's directory whose name
\* is stem's name, a dot, and anything (nothing included)
glob_stem(fs, stem) ==
  {p \in DOMAIN fs.files :
     /\ dirname(p) = dirname(stem)
     /\ StartsWith(basename(p), basename(stem) \o <<".">>)}

\* the for loop over matched: each file to dst_dir under its own basename
copy_matched(fs, matched, dst_dir) ==
  LET target(f) == join(dst_dir, basename(f))
      targets == {target(f) : f \in matched}
  IN IF \E f \in matched : target(f) = f
       THEN [err |-> "SameFileError", fs |-> fs]
     ELSE [err |-> "none",
           fs |-> [fs EXCEPT !.files =
                     [p \in DOMAIN fs.files \cup targets |->
                        IF p \in targets
                          THEN fs.files[CHOOSE f \in matched : target(f) = p]
                          ELSE fs.files[p]]]]

copy_shapefile_set(fs, shp_path, dst_dir) ==
  LET fs1 == ensure_dir(fs, dst_dir)
      stem == with_suffix_empty(shp_path)
      matched == glob_stem(fs1, stem)
      r == copy_matched(fs1, matched, dst_dir)
  IN IF ~is_shp(shp_path)
       THEN [err |-> "ValueError", fs |-> fs1, ret |-> <<>>]
     ELSE IF matched = {}
       THEN [err |-> "FileNotFoundError", fs |-> fs1, ret |-> <<>>]
     ELSE IF r.err # "none"
       THEN [err |-> r.err, fs |-> r.fs, ret |-> <<>>]
     ELSE [err |-> "none", fs |-> r.fs,
           ret |-> join(dst_dir, basename(shp_path))]

(***************************************************************************)
(* piece_function, lines 51-82: the workspace, the staged inputs, cmd.     *)
(***************************************************************************)
in_dir == join(work_root, in_name)
out_dir == join(work_root, out_name)

\* barrier_given without the truth test
barrier_not_sentinel(barrier_shp_path) == barrier_shp_path # Sentinel

\* Python's truth test and the comparison with "0" of line 67
barrier_given(barrier_shp_path) ==
  /\ barrier_shp_path # None
  /\ barrier_shp_path # <<>>
  /\ barrier_shp_path # Sentinel

\* line 71: the literal /work/out/run1, whatever inp.output_basename is (the
\* join with output_basename of line 70 is commented out; line 71 spells the
\* literal without quotes, and is read here as the string it spells)
output_base(inp) == join(out_dir, Run1)

\* str(int(outputs_type))
int_str(n) == CASE n = 0 -> <<"0">> [] n = 1 -> <<"1">> [] OTHER -> <<"2">>

NoCmd == <<>>

stage(fs, inp) ==
  LET fs0 == ensure_dir(ensure_dir(fs, in_dir), out_dir)
      r1 == copy_file(fs0, inp.lcp_path, in_dir)
      r2 == copy_file(r1.fs, inp.inputs_path, in_dir)
      r3 == copy_shapefile_set(r2.fs, inp.ignition_shp_path, in_dir)
      r4 == IF barrier_given(inp.barrier_shp_path)
              THEN copy_shapefile_set(r3.fs, inp.barrier_shp_path, in_dir)
              ELSE [err |-> "none", fs |-> r3.fs, ret |-> Sentinel]
  IN IF r1.err # "none" THEN [err |-> r1.err, fs |-> r1.fs, cmd |-> NoCmd]
     ELSE IF r2.err # "none" THEN [err |-> r2.err, fs |-> r2.fs, cmd |-> NoCmd]
     ELSE IF r3.err # "none" THEN [err |-> r3.err, fs |-> r3.fs, cmd |-> NoCmd]
     ELSE IF r4.err # "none" THEN [err |-> r4.err, fs |-> r4.fs, cmd |-> NoCmd]
     ELSE [err |-> "none", fs |-> r4.fs,
           cmd |-> <<wrapper, r1.ret, r2.ret, r3.ret, r4.ret,
                     output_base(inp), int_str(inp.outputs_type)>>]

(***************************************************************************)
(* piece_function, lines 94-108: the fallback log, the reported log, the   *)
(* failure.                                                                *)
(***************************************************************************)
fallback_log(inp) == join(work_root, inp.output_basename \o StdoutLogSuffix)

runner_log(base) == base \o RunnerLogSuffix

\* open(path, "w") and write: the file holds text alone, written now
write_text(fs, path, text, now) ==
  [fs EXCEPT !.files =
     [p \in DOMAIN fs.files \cup {path} |->
        IF p = path THEN [data |-> text, mtime |-> now] ELSE fs.files[p]]]

\* persist_stdout moved after the exit status test: a failed run writes none
persist_stdout_on_success(fs, inp, p, now) ==
  IF p.returncode = 0 THEN write_text(fs, fallback_log(inp), p.stdout, now) ELSE fs

\* lines 95-97, whatever the exit status
persist_stdout(fs, inp, p, now) == write_text(fs, fallback_log(inp), p.stdout, now)

\* select_log without the existence test
select_log_runner_always(fs, runner, fallback) == runner

\* line 100
select_log(fs, runner, fallback) ==
  IF runner \in DOMAIN fs.files THEN runner ELSE fallback

\* failed with the wrong threshold
failed_above_one(returncode) == returncode > 1

\* line 102
failed(returncode) == returncode # 0

\* lines 105-108: the message names rc, runner_log_path and fallback_log
failure(returncode, reported, fallback) ==
  [kind |-> "RuntimeError", rc |-> returncode, paths |-> <<reported, fallback>>]

NoErr == [kind |-> "none", rc |-> 0, paths |-> <<>>]
NoRet == [outputs_zip_path |-> <<>>, runner_log_path |-> <<>>]
NoProc == [returncode |-> 0, stdout |-> ""]
NoCall == [shp_path |-> <<>>, dst_dir |-> <<>>, ret |-> <<>>, err |-> "none"]
NoInput ==
  [lcp_path |-> <<>>, inputs_path |-> <<>>, ignition_shp_path |-> <<>>,
   barrier_shp_path |-> Sentinel, output_basename |-> FarsiteRun,
   outputs_type |-> 1]

(***************************************************************************)
(* piece_function, lines 110-120: the outputs zip.                         *)
(***************************************************************************)
zip_base(inp) == join(work_root, inp.output_basename \o OutputsSuffix)

\* the files under root_dir, each by its path relative to root_dir
listing(fs, root_dir) ==
  {[name |-> SubSeq(p, Len(root_dir) + 2, Len(p)), data |-> fs.files[p].data] :
     p \in {q \in DOMAIN fs.files : StartsWith(q, root_dir \o <<"/">>)}}

\* shutil.make_archive(base, "zip", root_dir): writes base.zip, returns it
make_archive(fs, base, root_dir, now) ==
  LET zip_path == base \o ZipExt
  IN [fs |-> [fs EXCEPT !.files =
                [p \in DOMAIN fs.files \cup {zip_path} |->
                   IF p = zip_path
                     THEN [data |-> listing(fs, root_dir), mtime |-> now]
                     ELSE fs.files[p]]],
      ret |-> zip_path]

(***************************************************************************)
(* The runs of piece_function in one /work, one after another.             *)
(***************************************************************************)
SrcData(p) ==
  CASE p = LcpSrc -> "landscape"
    [] p = InputsSrc -> "inputs"
    [] p = IgnShp -> "ignition shp"
    [] p = IgnDbf -> "ignition dbf"
    [] p = IgnXml -> "ignition xml"
    [] p = IgnLike -> "other dbf"
    [] p = BarShp -> "barrier shp"
    [] p = BarPrj -> "barrier prj"
    [] OTHER -> "text"

\* the files of /d before the first run, all older than any run
SrcFiles(present) == [p \in present |-> [data |-> SrcData(p), mtime |-> 0]]

\* the inputs of the runs made one after another
RunInputs ==
  [lcp_path : {LcpSrc},
   inputs_path : {InputsSrc},
   ignition_shp_path : {IgnShp},
   barrier_shp_path : {Sentinel, BarShp, TxtSrc},
   output_basename : {Run1, FarsiteRun},
   outputs_type : {1}]

\* what run_farsite.sh may print
Texts == {"", "FARSITE done", "Segmentation fault"}

Init ==
  /\ files = SrcFiles({LcpSrc, InputsSrc, IgnShp, IgnDbf, IgnLike, BarShp, BarPrj, TxtSrc})
  /\ dirs = {SrcDir, work_root}
  /\ pc = "idle"
  /\ run = 0
  /\ input = NoInput
  /\ cmd = NoCmd
  /\ proc = NoProc
  /\ runner_log_path = <<>>
  /\ ret = NoRet
  /\ err = NoErr
  /\ before = [files |-> files, dirs |-> dirs]
  /\ call = NoCall

\* piece_function is entered with inp and runs lines 50-82
Enter(inp) ==
  /\ LET r == stage([files |-> files, dirs |-> dirs], inp)
     IN /\ files' = r.fs.files
        /\ dirs' = r.fs.dirs
        /\ cmd' = r.cmd
        /\ err' = [NoErr EXCEPT !.kind = r.err]
        /\ pc' = IF r.err = "none" THEN "staged" ELSE "aborted"
  /\ input' = inp
  /\ run' = run + 1
  /\ before' = [files |-> files, dirs |-> dirs]
  /\ proc' = NoProc
  /\ runner_log_path' = <<>>
  /\ ret' = NoRet
  /\ UNCHANGED call

\* a first call, or the next call in the /work the call before left behind
Stage ==
  /\ pc \in {"idle", "aborted", "failed", "returned"}
  /\ run < MaxRuns
  /\ \E inp \in RunInputs : Enter(inp)

\* subprocess.run (lines 86-92) returns: the wrapper has exited with any
\* status, has printed any text, and has or has not written its own
\* <output_base>_runner.log (class docstring, lines 15-18)
Invoke ==
  /\ pc = "staged"
  /\ \E rc \in 0..MaxReturnCode, text \in Texts, log \in BOOLEAN :
       LET fs0 == [files |-> files, dirs |-> dirs]
           fs1 == IF log THEN write_text(fs0, runner_log(cmd[6]), "runner log", run)
                         ELSE fs0
       IN /\ files' = fs1.files
          /\ proc' = [returncode |-> rc, stdout |-> text]
  /\ pc' = "ran"
  /\ UNCHANGED <<dirs, run, input, cmd, runner_log_path, ret, err, before, call>>

\* lines 94-108
Classify ==
  /\ pc = "ran"
  /\ LET fs1 == persist_stdout([files |-> files, dirs |-> dirs], input, proc, run)
         reported == select_log(fs1, runner_log(output_base(input)), fallback_log(input))
     IN /\ files' = fs1.files
        /\ runner_log_path' = reported
        /\ IF failed(proc.returncode)
             THEN /\ err' = failure(proc.returncode, reported, fallback_log(input))
                  /\ pc' = "failed"
             ELSE /\ err' = err
                  /\ pc' = "packaging"
  /\ UNCHANGED <<dirs, run, input, cmd, proc, ret, before, call>>

\* lines 110-120
Package ==
  /\ pc = "packaging"
  /\ LET r == make_archive([files |-> files, dirs |-> dirs], zip_base(input), out_dir, run)
     IN /\ files' = r.fs.files
        /\ ret' = [outputs_zip_path |-> r.ret, runner_log_path |-> runner_log_path]
  /\ pc' = "returned"
  /\ UNCHANGED <<dirs, run, input, cmd, proc, runner_log_path, err, before, call>>

Next == Stage \/ Invoke \/ Classify \/ Package

Spec == Init /\ [][Next]_vars

(***************************************************************************)
(* One call of piece_function up to the invocation, on every input and     *)
(* every set of source files.                                              *)
(***************************************************************************)
Inputs ==
  [lcp_path : {LcpSrc},
   inputs_path : {InputsSrc},
   ignition_shp_path : {IgnShp, TxtSrc},
   barrier_shp_path : {None, <<>>, Sentinel, BarShp, TxtSrc},
   output_basename : {Run1, FarsiteRun},
   outputs_type : 0..MaxOutputsType]

InitStage ==
  /\ \E optional \in SUBSET {LcpSrc, IgnDbf, BarShp, BarPrj} :
       files = SrcFiles({InputsSrc, IgnShp, TxtSrc} \cup optional)
  /\ dirs \in {{SrcDir, work_root}, {SrcDir, work_root, in_dir, out_dir}}
  /\ pc = "idle"
  /\ run = 0
  /\ input = NoInput
  /\ cmd = NoCmd
  /\ proc = NoProc
  /\ runner_log_path = <<>>
  /\ ret = NoRet
  /\ err = NoErr
  /\ before = [files |-> files, dirs |-> dirs]
  /\ call = NoCall

StageOnce ==
  /\ pc = "idle"
  /\ \E inp \in Inputs : Enter(inp)

SpecStage == InitStage /\ [][StageOnce]_vars

(***************************************************************************)
(* _copy_shapefile_set called on its own, on every filesystem.             *)
(***************************************************************************)
\* a copy of i.dbf an earlier staging left in /work/in
StaleDbf == join(in_dir, basename(IgnDbf))

InitCopy ==
  /\ \E present \in SUBSET {IgnShp, IgnDbf, IgnXml, IgnLike, BarShp, BarPrj, TxtSrc} :
       \/ /\ files = SrcFiles(present)
          /\ dirs \in {{SrcDir}, {SrcDir, work_root, in_dir}}
       \/ /\ files = [p \in present \cup {StaleDbf} |->
                        IF p = StaleDbf THEN [data |-> "stale dbf", mtime |-> 0]
                                        ELSE SrcFiles(present)[p]]
          /\ dirs = {SrcDir, work_root, in_dir}
  /\ pc = "copy_idle"
  /\ run = 0
  /\ input = NoInput
  /\ cmd = NoCmd
  /\ proc = NoProc
  /\ runner_log_path = <<>>
  /\ ret = NoRet
  /\ err = NoErr
  /\ before = [files |-> files, dirs |-> dirs]
  /\ call = NoCall

CopyShapefileSet ==
  /\ pc = "copy_idle"
  /\ \E shp_path \in {IgnShp, BarShp, TxtSrc, IgnDbf}, dst_dir \in {in_dir, NestedDst} :
       LET r == copy_shapefile_set([files |-> files, dirs |-> dirs], shp_path, dst_dir)
       IN /\ files' = r.fs.files
          /\ dirs' = r.fs.dirs
          /\ call' = [shp_path |-> shp_path, dst_dir |-> dst_dir,
                      ret |-> r.ret, err |-> r.err]
  /\ pc' = "copy_done"
  /\ UNCHANGED <<run, input, cmd, proc, runner_log_path, ret, err, before>>

SpecCopy == InitCopy /\ [][CopyShapefileSet]_vars

(***************************************************************************)
(* Properties.                                                             *)
(***************************************************************************)
Paths(t) == {t[k] : k \in 1..Len(t)}

\* the files of f that sit beside shp and are named <stem>.<anything>,
\* <stem> being shp without its four-character extension
Siblings(f, shp) ==
  {p \in DOMAIN f :
     /\ StartsWith(p, SubSeq(shp, 1, Len(shp) - Len(ShpExt)) \o <<".">>)
     /\ RFind(p, "/") = RFind(shp, "/")}

Staged(dst_dir, sources) == {dst_dir \o <<"/">> \o basename(f) : f \in sources}

\* the fallback log and the outputs zip of the run under way, spelled out
FallbackOfRun == work_root \o <<"/">> \o input.output_basename \o StdoutLogSuffix
ZipOfRun == work_root \o <<"/">> \o input.output_basename \o OutputsSuffix \o ZipExt
IsZip(p) == Len(p) >= Len(ZipExt) /\ SubSeq(p, Len(p) - Len(ZipExt) + 1, Len(p)) = ZipExt

\* C1: once the wrapper has returned and its result has been classified,
\* whatever the exit status, the fallback log <work_root>/<output_basename>
\* _stdout.log exists, was written in this run and holds exactly the text
\* captured in this run: in the failure state as in the states of the
\* normal return.
C1_FallbackLogHoldsCapturedText ==
  pc \in {"failed", "packaging", "returned"} =>
    /\ FallbackOfRun \in DOMAIN files
    /\ files[FallbackOfRun].data = proc.stdout
    /\ files[FallbackOfRun].mtime = run

\* a failed run that overwrote the fallback log an earlier run had left
\* with another text
C1_Witness ==
  /\ pc = "failed"
  /\ FallbackOfRun \in DOMAIN before.files
  /\ before.files[FallbackOfRun].data # proc.stdout
  /\ files[FallbackOfRun].data = proc.stdout

\* C2: a run whose wrapper exits non-zero ends in the failure that carries
\* that exit status, returns no OutputModel and leaves every zip as it was
\* when the run began (none created, none modified); the archive step and
\* the return are reached with exit status 0 only.
C2_NonZeroExitRaisesAndSkipsArchive ==
  /\ (pc \in {"failed", "packaging", "returned"} /\ proc.returncode # 0) =>
       /\ pc = "failed"
       /\ err.kind = "RuntimeError"
       /\ err.rc = proc.returncode
       /\ ret = NoRet
       /\ \A p \in DOMAIN files \cup DOMAIN before.files :
            IsZip(p) => /\ p \in DOMAIN files
                        /\ p \in DOMAIN before.files
                        /\ files[p] = before.files[p]
  /\ pc \in {"packaging", "returned"} => proc.returncode = 0
  /\ pc = "failed" => proc.returncode # 0

\* a failed run in a /work that holds the zip of an earlier run of the same
\* output_basename
C2_Witness ==
  /\ pc = "failed"
  /\ proc.returncode # 0
  /\ ZipOfRun \in DOMAIN files

\* C3: the failure of a non-zero exit names both candidate logs, the
\* wrapper's <output-base>_runner.log and the fallback log, also when the
\* runner log does not exist.
C3_FailureNamesBothLogs ==
  pc = "failed" =>
    /\ (cmd[6] \o RunnerLogSuffix) \in Paths(err.paths)
    /\ FallbackOfRun \in Paths(err.paths)

\* C4: a run whose wrapper exits 0 returns as runner_log_path the wrapper's
\* <output-base>_runner.log when that file exists, the fallback log
\* otherwise, and the returned path is a file on disk at the return.
C4_ReturnedLogIsRunnerLogOrFallback ==
  pc = "returned" =>
    /\ proc.returncode = 0
    /\ ret.runner_log_path =
         IF (cmd[6] \o RunnerLogSuffix) \in DOMAIN files
           THEN cmd[6] \o RunnerLogSuffix
           ELSE FallbackOfRun
    /\ ret.runner_log_path \in DOMAIN files

\* a return with no runner log on disk: the fallback log is returned
C4_Witness ==
  /\ pc = "returned"
  /\ (cmd[6] \o RunnerLogSuffix) \notin DOMAIN files
  /\ ret.runner_log_path = FallbackOfRun

\* C5: the output-base argument of the wrapper is /work/out/<output_basename>
\* for every output_basename.
C5_OutputBaseFromBasename ==
  pc = "staged" =>
    cmd[6] = work_root \o <<"/">> \o out_name \o <<"/">> \o input.output_basename

\* C6: _copy_shapefile_set on a path whose extension is not .shp fails with
\* the invalid-format error and leaves files and directories as they were,
\* also when the destination directory did not exist.
C6_BadExtensionLeavesFilesystem ==
  (pc = "copy_done" /\ lower(suffix(call.shp_path)) # ShpExt) =>
    /\ call.err = "ValueError"
    /\ files = before.files
    /\ dirs = before.dirs

\* C7 as stated: when nothing but the primary itself is named <stem>.*,
\* _copy_shapefile_set fails and copies nothing.
C7_PrimaryAloneRejected ==
  (/\ pc = "copy_done"
   /\ lower(suffix(call.shp_path)) = ShpExt
   /\ Siblings(before.files, call.shp_path) \subseteq {call.shp_path}) =>
    /\ call.err # "none"
    /\ files = before.files

\* C7 as amended: _copy_shapefile_set fails, copying nothing, when no file
\* at all is named <stem>.*; when the primary is the only such file it is
\* copied and its destination path is returned.
C7_FailsOnlyWhenNothingMatches ==
  (pc = "copy_done" /\ lower(suffix(call.shp_path)) = ShpExt) =>
    /\ Siblings(before.files, call.shp_path) = {} =>
         /\ call.err = "FileNotFoundError"
         /\ files = before.files
    /\ Siblings(before.files, call.shp_path) = {call.shp_path} =>
         /\ call.err = "none"
         /\ call.ret = call.dst_dir \o <<"/">> \o basename(call.shp_path)
         /\ call.ret \in DOMAIN files
         /\ files[call.ret] = before.files[call.shp_path]
         /\ DOMAIN files = DOMAIN before.files \cup {call.ret}

\* a primary with no companion, accepted and copied
C7_Witness ==
  /\ pc = "copy_done"
  /\ call.shp_path = IgnShp
  /\ Siblings(before.files, IgnShp) = {IgnShp}
  /\ call.err = "none"
  /\ call.ret \in DOMAIN files

\* C8: for a primary .shp that exists with N files beside it named
\* <stem>.<anything>, _copy_shapefile_set (to a directory other than the
\* source's) copies exactly those N+1 files to the destination under their
\* own basenames, copies nothing else, changes no other file, and returns
\* <destination>/<basename of the primary>.
C8_CopiesExactlyTheSet ==
  (/\ pc = "copy_done"
   /\ lower(suffix(call.shp_path)) = ShpExt
   /\ call.shp_path \in DOMAIN before.files) =>
    LET set == Siblings(before.files, call.shp_path)
        targets == Staged(call.dst_dir, set)
    IN /\ call.err = "none"
       /\ Cardinality(targets) = Cardinality(set)
       /\ DOMAIN files = DOMAIN before.files \cup targets
       /\ \A f \in set : files[call.dst_dir \o <<"/">> \o basename(f)] = before.files[f]
       /\ \A p \in DOMAIN files \ targets : files[p] = before.files[p]
       /\ call.ret = call.dst_dir \o <<"/">> \o basename(call.shp_path)

\* i.shp with two sidecars, beside ix.dbf whose name only begins like the
\* stem: three files copied, ix.dbf not
C8_Witness ==
  /\ pc = "copy_done"
  /\ call.shp_path = IgnShp
  /\ {IgnShp, IgnDbf, IgnXml, IgnLike} \subseteq DOMAIN before.files
  /\ Staged(call.dst_dir, {IgnShp, IgnDbf, IgnXml}) \subseteq DOMAIN files
  /\ Staged(call.dst_dir, {IgnLike}) \cap DOMAIN files = {}
  /\ call.err = "none"

\* C9: with barrier_shp_path "0", empty or absent, and the mandatory inputs
\* resolvable, the run is staged with fourth argument "0" and no file but
\* the mandatory inputs' is copied; with any other barrier_shp_path the run
\* is staged only if the barrier's FileSet resolves, its files are then in
\* /work/in and the fourth argument is /work/in/<basename of the barrier>,
\* and otherwise the run aborts with no command built and nothing invoked.
C9_BarrierResolution ==
  LET mandatory ==
        /\ input.lcp_path \in DOMAIN before.files
        /\ input.inputs_path \in DOMAIN before.files
        /\ lower(suffix(input.ignition_shp_path)) = ShpExt
        /\ Siblings(before.files, input.ignition_shp_path) # {}
      mandatoryStaged ==
        Staged(work_root \o <<"/">> \o in_name,
               {input.lcp_path, input.inputs_path}
                 \cup Siblings(before.files, input.ignition_shp_path))
      barrier == input.barrier_shp_path
      resolves ==
        /\ lower(suffix(barrier)) = ShpExt
        /\ Siblings(before.files, barrier) # {}
  IN (pc \in {"staged", "aborted"} /\ mandatory) =>
       IF barrier \in {None, <<>>, Sentinel}
         THEN /\ pc = "staged"
              /\ cmd[5] = Sentinel
              /\ DOMAIN files \ DOMAIN before.files \subseteq mandatoryStaged
         ELSE IF resolves
           THEN /\ pc = "staged"
                /\ cmd[5] = work_root \o <<"/">> \o in_name \o <<"/">> \o basename(barrier)
                /\ \A f \in Siblings(before.files, barrier) :
                     files[work_root \o <<"/">> \o in_name \o <<"/">> \o basename(f)]
                       = before.files[f]
           ELSE /\ pc = "aborted"
                /\ err.kind \in {"ValueError", "FileNotFoundError"}
                /\ cmd = NoCmd
                /\ proc = NoProc

\* an empty barrier_shp_path: staged with "0" and no barrier file copied
\* although the barrier shapefile is there
C9_Witness ==
  /\ pc = "staged"
  /\ input.barrier_shp_path = <<>>
  /\ BarShp \in DOMAIN before.files
  /\ cmd[5] = Sentinel
  /\ Staged(in_dir, {BarShp}) \cap DOMAIN files = {}

\* C10: the log a run reports, in its result or in its failure, was written
\* during that run.
C10_ReportedLogIsOfThisRun ==
  /\ pc = "returned" => files[ret.runner_log_path].mtime = run
  /\ pc = "failed" => files[err.paths[1]].mtime = run

====
